---- MODULE Spec2Model ----
(***************************************************************************)
(* Model of the farmer loan ledger of loan_app.py: the two SQLite tables   *)
(* (loans, loan_history), the store functions that read and write them,    *)
(* the computed columns of get_all_loans and the pages of main() that      *)
(* drive the store.                                                        *)
(*                                                                         *)
(* Dates and timestamps are day numbers.  A store function runs on its own *)
(* connection: its statements act on the connection's pending copy of the  *)
(* database, conn.commit() publishes the copy and conn.close() without a   *)
(* commit discards it (the sqlite3 module opens a transaction before the   *)
(* first INSERT/UPDATE).  Any statement may raise (StorageError); the      *)
(* parameter failAt names the statement that does.                         *)
(***************************************************************************)
EXTENDS Integers, Sequences, FiniteSets, TLC

\* ------------------------------------------------------------------ bounds
MaxLoans == 2
MaxHist  == 2
MaxDay   == 2
MaxDays  == 120
MaxAsOf  == 8

\* ------------------------------------------------------------------ inputs
\* The arguments of add_loan and the fields of the Add New Loan form: one
\* well-formed loan, the same loan with a later end date, and the same loan
\* with one field off (empty farmer name, empty father's name, zero amount,
\* end date equal to the start date, end date before it).
GoodLoan ==
    [farmer_name |-> "Asha", father_name |-> "Devi", amount |-> 10000,
     rate |-> 10, start_date |-> 2, end_date |-> 32]

AddInputs ==
    {GoodLoan,
     [GoodLoan EXCEPT !.end_date = 92],
     [GoodLoan EXCEPT !.farmer_name = ""],
     [GoodLoan EXCEPT !.father_name = ""],
     [GoodLoan EXCEPT !.amount = 0],
     [GoodLoan EXCEPT !.end_date = 2],
     [GoodLoan EXCEPT !.end_date = 1]}

\* the new end dates of an update: the start date of GoodLoan and a later day
NewEndDates == {2, 92}
Reasons    == {"paid"}
LoanIds    == 1..(MaxLoans + 1)
FailPoints == {"none", "first", "second", "commit"}

VARIABLES loans, history, now, last

vars == <<loans, history, now, last>>

\* ------------------------------------------------------------------ helpers
Max(a, b) == IF a >= b THEN a ELSE b

RECURSIVE CountIf(_, _)
\* len(df[mask]) for a sequence of 0/1 mask values
CountIf(s, i) == IF i = 0 THEN 0 ELSE s[i] + CountIf(s, i - 1)

\* ------------------------------------------------------------------ tables
\* INSERT INTO loans (...): id is the next AUTOINCREMENT rowid, status and
\* created_at take their column defaults.
InsertLoan(db, farmer_name, father_name, amount, rate, start_date, end_date, ts) ==
    [db EXCEPT !.loans = Append(@,
        [id            |-> Len(@) + 1,
         farmer_name   |-> farmer_name,
         father_name   |-> father_name,
         loan_amount   |-> amount,
         interest_rate |-> rate,
         start_date    |-> start_date,
         end_date      |-> end_date,
         status        |-> "Active",
         created_at    |-> ts])]

InsertHistoryReplace(db, loan_id, action, details, ts) ==
    IF \E i \in 1..Len(db.history) : db.history[i].loan_id = loan_id
    THEN [db EXCEPT !.history =
            [i \in 1..Len(@) |->
                IF @[i].loan_id = loan_id
                THEN [id |-> @[i].id, loan_id |-> loan_id, action |-> action,
                      action_timestamp |-> ts, details |-> details]
                ELSE @[i]]]
    ELSE [db EXCEPT !.history = Append(@,
            [id |-> Len(@) + 1, loan_id |-> loan_id, action |-> action,
             action_timestamp |-> ts, details |-> details])]

\* INSERT INTO loan_history (loan_id, action, details): the foreign key is
\* declared but SQLite does not enforce it unless PRAGMA foreign_keys is set,
\* which the program never does.
InsertHistory(db, loan_id, action, details, ts) ==
    [db EXCEPT !.history = Append(@,
        [id               |-> Len(@) + 1,
         loan_id          |-> loan_id,
         action           |-> action,
         action_timestamp |-> ts,
         details          |-> details])]

UpdateStatusHardDelete(db, loan_id) ==
    LET Kept(l) == l.id # loan_id
    IN  [db EXCEPT !.loans = SelectSeq(@, Kept)]

\* UPDATE loans SET status = 'Inactive' WHERE id = ?  (no row: no effect)
UpdateStatus(db, loan_id) ==
    [db EXCEPT !.loans =
        [i \in 1..Len(@) |->
            IF @[i].id = loan_id THEN [@[i] EXCEPT !.status = "Inactive"] ELSE @[i]]]

\* UPDATE loans SET end_date = ? WHERE id = ?  (no row: no effect)
UpdateEndDate(db, loan_id, new_end_date) ==
    [db EXCEPT !.loans =
        [i \in 1..Len(@) |->
            IF @[i].id = loan_id THEN [@[i] EXCEPT !.end_date = new_end_date] ELSE @[i]]]

CloseAutocommit(committed, pending) == pending

\* conn.close() in the finally clause: what was not committed is rolled back.
Close(committed, pending) == committed

\* The try / except / finally of the three writers: s1 and s2 are the pending
\* database after the first and the second statement.
Transaction(db, s1, s2, failAt) ==
    CASE failAt = "first"  -> [db |-> Close(db, db), ret |-> FALSE]
      [] failAt = "second" -> [db |-> Close(db, s1), ret |-> FALSE]
      [] failAt = "commit" -> [db |-> Close(db, s2), ret |-> FALSE]
      [] OTHER             -> [db |-> Close(s2, s2), ret |-> TRUE]

\* ------------------------------------------------------------------ writers
add_loan(db, farmer_name, father_name, amount, rate, start_date, end_date, ts, failAt) ==
    LET s1      == InsertLoan(db, farmer_name, father_name, amount, rate,
                              start_date, end_date, ts)
        loan_id == Len(s1.loans)
        s2      == InsertHistory(s1, loan_id, "CREATE",
                      [text |-> "Loan created", farmer_name |-> farmer_name,
                       father_name |-> father_name, amount |-> amount], ts)
    IN  Transaction(db, s1, s2, failAt)

delete_loan_wrong_tag(db, loan_id, reason, ts, failAt) ==
    LET s1 == UpdateStatus(db, loan_id)
        s2 == InsertHistory(s1, loan_id, "UPDATE",
                 [text |-> "Loan marked as inactive", reason |-> reason], ts)
    IN  Transaction(db, s1, s2, failAt)

delete_loan(db, loan_id, reason, ts, failAt) ==
    LET s1 == UpdateStatus(db, loan_id)
        s2 == InsertHistory(s1, loan_id, "DELETE",
                 [text |-> "Loan marked as inactive", reason |-> reason], ts)
    IN  Transaction(db, s1, s2, failAt)

update_loan_end_date(db, loan_id, new_end_date, reason, ts, failAt) ==
    LET s1 == UpdateEndDate(db, loan_id, new_end_date)
        s2 == InsertHistory(s1, loan_id, "UPDATE",
                 [text |-> "End date updated", new_end_date |-> new_end_date,
                  reason |-> reason], ts)
    IN  Transaction(db, s1, s2, failAt)

\* ------------------------------------------------------------------ readers
\* round(num / den, 2 places already scaled in): the nearest integer to
\* num / den, a tie going to the even one (Python's round), den > 0
RoundHalfEven(num, den) ==
    LET q == num \div den
        r == num % den
    IN  IF 2 * r < den THEN q
        ELSE IF 2 * r > den THEN q + 1
        ELSE IF q % 2 = 0 THEN q ELSE q + 1

calculate_interest_swapped(amount, rate, start_date, end_date) ==
    LET days == start_date - end_date
    IN  RoundHalfEven(amount * rate * days, 365)

\* calculate_interest, in hundredths of a rupee: round(amount * rate * days /
\* (100 * 365), 2) with days = (end_date - start_date).days, which is negative
\* when end_date is before start_date.  In hundredths the quotient is
\* amount * rate * days * 100 / (100 * 365), written with the 100 cancelled.
calculate_interest(amount, rate, start_date, end_date) ==
    LET days == end_date - start_date
    IN  RoundHalfEven(amount * rate * days, 365)

calculate_days_remaining(end_date, today) == Max(end_date - today, 0)

status_color_strict(x) == IF x < 30 THEN "red" ELSE IF x <= 90 THEN "yellow" ELSE "green"

\* the lambda of loans_df['status_color']
status_color(x) == IF x <= 30 THEN "red" ELSE IF x <= 90 THEN "yellow" ELSE "green"

\* Manage Loans: the colour of the Remaining Days cell
color_remaining_days(val) ==
    IF val <= 30 THEN "color: red"
    ELSE IF val <= 90 THEN "color: orange"
    ELSE "color: green"

\* WHERE status = 'Active'
IsActive(l) == l.status = "Active"

get_all_loans_unfiltered(db, today) ==
    LET rows == db.loans
    IN  [i \in 1..Len(rows) |->
            LET days     == calculate_days_remaining(rows[i].end_date, today)
                interest == calculate_interest(rows[i].loan_amount,
                                rows[i].interest_rate, rows[i].start_date, today)
            IN  [id |-> rows[i].id, farmer_name |-> rows[i].farmer_name,
                 father_name |-> rows[i].father_name,
                 loan_amount |-> rows[i].loan_amount,
                 interest_rate |-> rows[i].interest_rate,
                 start_date |-> rows[i].start_date, end_date |-> rows[i].end_date,
                 status |-> rows[i].status, created_at |-> rows[i].created_at,
                 current_interest |-> interest,
                 total_amount |-> rows[i].loan_amount * 100 + interest,
                 days_remaining |-> days, status_color |-> status_color(days)]]

\* SELECT * FROM loans WHERE status = 'Active', with the computed columns
\* (current_interest and total_amount in hundredths of a rupee)
get_all_loans(db, today) ==
    LET rows == SelectSeq(db.loans, IsActive)
    IN  [i \in 1..Len(rows) |->
            LET days     == calculate_days_remaining(rows[i].end_date, today)
                interest == calculate_interest(rows[i].loan_amount,
                                rows[i].interest_rate, rows[i].start_date, today)
            IN  [id |-> rows[i].id, farmer_name |-> rows[i].farmer_name,
                 father_name |-> rows[i].father_name,
                 loan_amount |-> rows[i].loan_amount,
                 interest_rate |-> rows[i].interest_rate,
                 start_date |-> rows[i].start_date, end_date |-> rows[i].end_date,
                 status |-> rows[i].status, created_at |-> rows[i].created_at,
                 current_interest |-> interest,
                 total_amount |-> rows[i].loan_amount * 100 + interest,
                 days_remaining |-> days, status_color |-> status_color(days)]]

\* loan_history h JOIN loans l ON h.loan_id = l.id, in table order: the
\* history rows that have a loan, each with its loan's names.
JoinRows(db) ==
    LET Joined(h) == \E i \in 1..Len(db.loans) : db.loans[i].id = h.loan_id
        hs        == SelectSeq(db.history, Joined)
        LoanOf(h) == db.loans[CHOOSE i \in 1..Len(db.loans) : db.loans[i].id = h.loan_id]
    IN  [i \in 1..Len(hs) |->
            [hid              |-> hs[i].id,
             loan_id          |-> hs[i].loan_id,
             action_timestamp |-> hs[i].action_timestamp,
             farmer_name      |-> LoanOf(hs[i]).farmer_name,
             father_name      |-> LoanOf(hs[i]).father_name,
             action           |-> hs[i].action,
             details          |-> hs[i].details]]

IsDescending(s) ==
    \A i \in 1..(Len(s) - 1) : s[i].action_timestamp >= s[i + 1].action_timestamp

\* the columns of the SELECT of get_loan_history
Selected(r) ==
    [action_timestamp |-> r.action_timestamp, farmer_name |-> r.farmer_name,
     father_name |-> r.father_name, action |-> r.action, details |-> r.details]

\* get_loan_history: the joined rows ORDER BY h.action_timestamp DESC.  SQL
\* leaves the order of rows with equal timestamps open, so every descending
\* arrangement is a possible result.
get_loan_history(db) ==
    LET rows == JoinRows(db)
        n    == Len(rows)
    IN  {s \in {[i \in 1..n |-> Selected(rows[p[i]])] : p \in Permutations(1..n)} :
            IsDescending(s)}

\* Dashboard: the three counts of the Loan Status Summary
dashboard_counts(loans_df) ==
    LET n == Len(loans_df)
    IN  [critical_loans |-> CountIf([i \in 1..n |->
                IF loans_df[i].days_remaining <= 30 THEN 1 ELSE 0], n),
         warning_loans  |-> CountIf([i \in 1..n |->
                IF loans_df[i].days_remaining > 30 /\ loans_df[i].days_remaining <= 90
                THEN 1 ELSE 0], n),
         healthy_loans  |-> CountIf([i \in 1..n |->
                IF loans_df[i].days_remaining > 90 THEN 1 ELSE 0], n),
         active_loans   |-> n]

\* Analytics: the three counts of the Risk Analysis
analytics_counts(loans_df) ==
    LET n == Len(loans_df)
    IN  [high_risk   |-> CountIf([i \in 1..n |->
                IF loans_df[i].days_remaining <= 30 THEN 1 ELSE 0], n),
         medium_risk |-> CountIf([i \in 1..n |->
                IF loans_df[i].days_remaining > 30 /\ loans_df[i].days_remaining <= 90
                THEN 1 ELSE 0], n),
         low_risk    |-> CountIf([i \in 1..n |->
                IF loans_df[i].days_remaining > 90 THEN 1 ELSE 0], n)]

\* ------------------------------------------------------------------ state
DB == [loans |-> loans, history |-> history]

NoCall == [op |-> "none"]

Init ==
    /\ loans = <<>>
    /\ history = <<>>
    /\ now = 1
    /\ last = NoCall

\* date.today() and CURRENT_TIMESTAMP move on
Tick ==
    /\ now < MaxDay
    /\ now' = now + 1
    /\ UNCHANGED <<loans, history, last>>

Written(r, op, loan_id, failAt) ==
    /\ loans' = r.db.loans
    /\ history' = r.db.history
    /\ last' = IF r.ret
               THEN [op |-> op, loan_id |-> loan_id, failAt |-> failAt, ret |-> TRUE]
               ELSE [op |-> op, failAt |-> failAt, ret |-> FALSE]
    /\ UNCHANGED now

\* a call of add_loan with any arguments
AddLoan ==
    /\ Len(loans) < MaxLoans
    /\ Len(history) < MaxHist
    /\ \E a \in AddInputs, failAt \in FailPoints :
          Written(add_loan(DB, a.farmer_name, a.father_name, a.amount, a.rate,
                           a.start_date, a.end_date, now, failAt),
                  "add_loan", Len(loans) + 1, failAt)

\* a call of delete_loan with any loan id
DeleteLoan ==
    /\ Len(history) < MaxHist
    /\ \E loan_id \in LoanIds, reason \in Reasons, failAt \in FailPoints :
          Written(delete_loan(DB, loan_id, reason, now, failAt),
                  "delete_loan", loan_id, failAt)

\* a call of update_loan_end_date with any loan id and date
UpdateLoanEndDate ==
    /\ Len(history) < MaxHist
    /\ \E loan_id \in LoanIds, new_end_date \in NewEndDates, reason \in Reasons,
          failAt \in FailPoints :
          Written(update_loan_end_date(DB, loan_id, new_end_date, reason, now, failAt),
                  "update_loan_end_date", loan_id, failAt)

GetAllLoans ==
    /\ last' = [op |-> "get_all_loans", ret |-> get_all_loans(DB, now)]
    /\ UNCHANGED <<loans, history, now>>

GetLoanHistory ==
    /\ \E rows \in get_loan_history(DB) :
          last' = [op |-> "get_loan_history", ret |-> rows]
    /\ UNCHANGED <<loans, history, now>>

\* page == "Dashboard"
Dashboard ==
    /\ LET loans_df == get_all_loans(DB, now)
       IN  last' = [op |-> "dashboard", loans_df |-> loans_df,
                    ret |-> dashboard_counts(loans_df)]
    /\ UNCHANGED <<loans, history, now>>

\* page == "Analytics"
Analytics ==
    /\ LET loans_df == get_all_loans(DB, now)
       IN  last' = [op |-> "analytics", loans_df |-> loans_df,
                    ret |-> analytics_counts(loans_df)]
    /\ UNCHANGED <<loans, history, now>>

\* page == "Add New Loan": the checks of the submitted form; "" when it passes
validate_form(farmer_name, father_name, loan_amount, start_date, end_date) ==
    IF end_date <= start_date THEN "End date must be after start date!"
    ELSE IF loan_amount <= 0 THEN "Loan amount must be greater than 0!"
    ELSE IF farmer_name = "" \/ father_name = ""
         THEN "Farmer name and father's name are required!"
    ELSE ""

\* the Add Loan button of the form
SubmitAddLoanForm ==
    /\ Len(loans) < MaxLoans
    /\ Len(history) < MaxHist
    /\ \E a \in AddInputs, failAt \in FailPoints :
          LET error == validate_form(a.farmer_name, a.father_name, a.amount,
                                     a.start_date, a.end_date)
          IN  IF error # ""
              THEN /\ last' = [op |-> "add_loan_form", error |-> error]
                   /\ UNCHANGED <<loans, history, now>>
              ELSE Written(add_loan(DB, a.farmer_name, a.father_name, a.amount,
                                    a.rate, a.start_date, a.end_date, now, failAt),
                           "add_loan", Len(loans) + 1, failAt)

\* page == "Manage Loans", the Update End Date button: the loan is one of the
\* select box, whose options are the ids of the active loans
ManageUpdate ==
    /\ Len(history) < MaxHist
    /\ LET loans_df == get_all_loans(DB, now)
       IN  \E i \in 1..Len(loans_df), new_end_date \in NewEndDates,
              update_reason \in Reasons, failAt \in FailPoints :
              Written(update_loan_end_date(DB, loans_df[i].id, new_end_date,
                                           update_reason, now, failAt),
                      "update_loan_end_date", loans_df[i].id, failAt)

\* page == "Manage Loans", the Delete Loan button
ManageDelete ==
    /\ Len(history) < MaxHist
    /\ LET loans_df == get_all_loans(DB, now)
       IN  \E i \in 1..Len(loans_df), delete_reason \in Reasons,
              failAt \in FailPoints :
              Written(delete_loan(DB, loans_df[i].id, delete_reason, now, failAt),
                      "delete_loan", loans_df[i].id, failAt)

Next ==
    \/ Tick
    \/ AddLoan
    \/ DeleteLoan
    \/ UpdateLoanEndDate
    \/ GetAllLoans
    \/ GetLoanHistory
    \/ Dashboard
    \/ Analytics

Spec == Init /\ [][Next]_vars

\* the store as the pages of main() drive it
NextUI ==
    \/ Tick
    \/ SubmitAddLoanForm
    \/ ManageUpdate
    \/ ManageDelete
    \/ GetAllLoans
    \/ GetLoanHistory
    \/ Dashboard
    \/ Analytics

SpecUI == Init /\ [][NextUI]_vars

\* The arguments of a call of calculate_interest: principals > 0, rates >= 0,
\* and as-of dates before, on and after the start date, among them the day
\* 182 days after a start on day 2.
CalcAmounts == {1, 10000, 12345}
CalcRates   == {0, 7, 10}
CalcStarts  == {2, 4}
CalcAsOf    == (0..MaxAsOf) \cup {184}

\* a call of calculate_interest on its own
CalculateInterest ==
    /\ \E amount \in CalcAmounts, rate \in CalcRates, start_date \in CalcStarts,
          end_date \in CalcAsOf :
          last' = [op |-> "calculate_interest", amount |-> amount, rate |-> rate,
                   start_date |-> start_date, end_date |-> end_date,
                   ret |-> calculate_interest(amount, rate, start_date, end_date)]
    /\ UNCHANGED <<loans, history, now>>

NextCalc == CalculateInterest

SpecCalc == Init /\ [][NextCalc]_vars

\* ------------------------------------------------------------------ claims
WriterOps == {"add_loan", "delete_loan", "update_loan_end_date"}

ActionTag(op) ==
    CASE op = "add_loan"    -> "CREATE"
      [] op = "delete_loan" -> "DELETE"
      [] OTHER              -> "UPDATE"

Ids(ls) == {ls[i].id : i \in 1..Len(ls)}

\* a step in which a store function was called
CallStep == last' # last \/ loans' # loans \/ history' # history

\* a step in which a writer was called and returned True
Succeeded(op) == CallStep /\ last'.op = op /\ last'.ret = TRUE

NewEntry == history'[Len(history')]

\* C1: every call of add_loan, update_loan_end_date or delete_loan that
\* returns True leaves the history log as it was plus exactly one entry, and
\* that entry has the action tag of the operation (CREATE, UPDATE, DELETE) and
\* the id of the loan the operation was applied to (for add_loan, the id of
\* the row it inserted).
ThmC1 ==
    [][\A op \in WriterOps :
          Succeeded(op) =>
              /\ Len(history') = Len(history) + 1
              /\ SubSeq(history', 1, Len(history)) = history
              /\ NewEntry.action = ActionTag(op)
              /\ NewEntry.loan_id = last'.loan_id
              /\ op = "add_loan" =>
                    /\ Len(loans') = Len(loans) + 1
                    /\ loans'[Len(loans')].id = NewEntry.loan_id]_vars

WitC1 ==
    /\ Len(history) = 2
    /\ history[1].action = "CREATE"
    /\ history[2].action = "UPDATE"
    /\ history[2].loan_id = history[1].loan_id
    /\ last.op = "update_loan_end_date"
    /\ last.ret = TRUE

\* C2: update_loan_end_date and delete_loan called with a loan id that is not
\* in the loans table do not return success and create no history entry:
\* a call of either that returns True, or that adds a history entry, was
\* given the id of a stored loan.
CexC2 ==
    [][\A op \in {"update_loan_end_date", "delete_loan"} :
          /\ Succeeded(op) => last'.loan_id \in Ids(loans)
          /\ (CallStep /\ last'.op = op /\ history' # history)
                => NewEntry.loan_id \in Ids(loans)]_vars

\* C3: add_loan persists no loan row when the amount is <= 0, the end date is
\* not after the start date, or a name is empty: every row a step adds to the
\* loans table is well-formed.
CexC3 ==
    [][Len(loans') > Len(loans) =>
          LET l == loans'[Len(loans')]
          IN  /\ l.loan_amount > 0
              /\ l.end_date > l.start_date
              /\ l.farmer_name # ""
              /\ l.father_name # ""]_vars

\* what the first statement of the writer that logged entry e did to loans
Applied(e, before, after) ==
    CASE e.action = "CREATE" ->
            /\ Len(after) = Len(before) + 1
            /\ SubSeq(after, 1, Len(before)) = before
            /\ after[Len(after)].id = e.loan_id
            /\ after[Len(after)].farmer_name = e.details.farmer_name
            /\ after[Len(after)].loan_amount = e.details.amount
      [] e.action = "DELETE" ->
            /\ Len(after) = Len(before)
            /\ \A i \in 1..Len(after) :
                  IF after[i].id = e.loan_id
                  THEN after[i] = [before[i] EXCEPT !.status = "Inactive"]
                  ELSE after[i] = before[i]
      [] OTHER ->
            /\ Len(after) = Len(before)
            /\ \A i \in 1..Len(after) :
                  IF after[i].id = e.loan_id
                  THEN after[i] = [before[i] EXCEPT !.end_date = e.details.new_end_date]
                  ELSE after[i] = before[i]

\* C4: the two writes of a writer are atomic.  A call that fails, also after
\* its first statement or at the commit, leaves loans and history as they
\* were; no step changes the loans table without adding the one history entry
\* of that change, and no step adds a history entry without the loans table
\* holding the change the entry describes.
ThmC4 ==
    [][/\ (last'.op \in WriterOps /\ last'.ret = FALSE)
            => (loans' = loans /\ history' = history)
       /\ loans' # loans => history' # history
       /\ history' # history =>
            /\ Len(history') = Len(history) + 1
            /\ SubSeq(history', 1, Len(history)) = history
            /\ Applied(NewEntry, loans, loans')]_vars

WitC4 ==
    /\ last.op = "delete_loan"
    /\ last.ret = FALSE
    /\ last.failAt \in {"second", "commit"}
    /\ Len(loans) = 1
    /\ loans[1].status = "Active"
    /\ Len(history) = 1

CexC6 ==
    \A i \in 1..Len(loans) :
        /\ loans[i].end_date > loans[i].start_date
        /\ loans[i].loan_amount > 0

\* the number of places of sequence s that hold x
Occurrences(s, x) == Cardinality({i \in 1..Len(s) : s[i] = x})

\* C7: after a delete_loan(id) that returns True, get_all_loans returns
\* exactly the loans whose status is Active and id is not among them, while
\* every row get_loan_history returned for that loan before the call is
\* still in every result of get_loan_history after it.
ThmC7 ==
    [][Succeeded("delete_loan") =>
          LET id         == last'.loan_id
              OfLoan(r)  == r.loan_id = id
              joined     == SelectSeq(JoinRows(DB), OfLoan)
              prior      == [k \in 1..Len(joined) |-> Selected(joined[k])]
          IN  /\ id \notin Ids(get_all_loans(DB', now'))
              /\ Ids(get_all_loans(DB', now')) =
                    {loans'[i].id : i \in {i \in 1..Len(loans') :
                                              loans'[i].status = "Active"}}
              /\ \A after \in get_loan_history(DB') :
                    \A k \in 1..Len(prior) :
                        Occurrences(after, prior[k]) >= Occurrences(prior, prior[k])]_vars

WitC7 ==
    /\ last.op = "delete_loan"
    /\ last.ret = TRUE
    /\ Len(loans) = 1
    /\ last.loan_id = loans[1].id
    /\ loans[1].status = "Inactive"
    /\ Len(history) = 2
    /\ history[1].loan_id = last.loan_id
    /\ get_all_loans(DB, now) = <<>>
    /\ \A rows \in get_loan_history(DB) : Len(rows) = 2

\* C8: get_loan_history returns every entry of the history log exactly once,
\* in non-increasing order of timestamp.
CexC8 ==
    last.op = "get_loan_history" =>
        /\ Len(last.ret) = Len(history)
        /\ IsDescending(last.ret)
        /\ \A i \in 1..Len(history) :
              \E k \in 1..Len(last.ret) :
                  /\ last.ret[k].action_timestamp = history[i].action_timestamp
                  /\ last.ret[k].action = history[i].action
                  /\ last.ret[k].details = history[i].details

\* C9: the history log is append-only and its entries immutable: a step of
\* any store operation leaves the log as it was, or as it was plus one entry
\* at the end.
ThmC9 ==
    [][\/ history' = history
       \/ /\ Len(history') = Len(history) + 1
          /\ \A i \in 1..Len(history) : history'[i] = history[i]]_vars

WitC9 ==
    /\ Len(history) = 2
    /\ history[1].action = "CREATE"
    /\ history[2].action = "DELETE"
    /\ last.op = "get_loan_history"
    /\ Len(last.ret) = 2

\* the rows of a data frame with the given status_color
Coloured(loans_df, c) ==
    Cardinality({i \in 1..Len(loans_df) : loans_df[i].status_color = c})

\* C10: for every days-remaining value d >= 0 the classification is Critical
\* (red) iff d <= 30, Warning (yellow, orange in the table) iff 31 <= d <= 90,
\* Healthy (green) iff d > 90; the counts of the Dashboard and of the
\* Analytics page are the numbers of rows of each colour, and the three
\* counts sum to the number of active loans.
ThmC10 ==
    /\ \A d \in 0..MaxDays :
          /\ status_color(d) \in {"red", "yellow", "green"}
          /\ status_color(d) = "red" <=> d <= 30
          /\ status_color(d) = "yellow" <=> (31 <= d /\ d <= 90)
          /\ status_color(d) = "green" <=> d > 90
          /\ color_remaining_days(d) = "color: red" <=> status_color(d) = "red"
          /\ color_remaining_days(d) = "color: orange" <=> status_color(d) = "yellow"
          /\ color_remaining_days(d) = "color: green" <=> status_color(d) = "green"
    /\ last.op = "dashboard" =>
          /\ last.ret.critical_loans = Coloured(last.loans_df, "red")
          /\ last.ret.warning_loans = Coloured(last.loans_df, "yellow")
          /\ last.ret.healthy_loans = Coloured(last.loans_df, "green")
          /\ last.ret.critical_loans + last.ret.warning_loans
                + last.ret.healthy_loans
                = Cardinality({i \in 1..Len(loans) : loans[i].status = "Active"})
    /\ last.op = "analytics" =>
          /\ last.ret.high_risk = Coloured(last.loans_df, "red")
          /\ last.ret.medium_risk = Coloured(last.loans_df, "yellow")
          /\ last.ret.low_risk = Coloured(last.loans_df, "green")
          /\ last.ret.high_risk + last.ret.medium_risk + last.ret.low_risk
                = Cardinality({i \in 1..Len(loans) : loans[i].status = "Active"})

WitC10 ==
    /\ last.op = "dashboard"
    /\ Len(last.loans_df) = 2
    /\ last.loans_df[1].days_remaining = 30
    /\ last.loans_df[2].days_remaining = 90
    /\ last.ret.critical_loans = 1
    /\ last.ret.warning_loans = 1

\* C11: the accrued interest of a loan with principal > 0 and rate >= 0 is
\* never negative, also when today is before the loan's start date: no row of
\* get_all_loans has current_interest < 0 or total_amount below the principal.
CexC11 ==
    last.op \in {"get_all_loans", "dashboard", "analytics"} =>
        LET loans_df == IF last.op = "get_all_loans" THEN last.ret ELSE last.loans_df
        IN  \A i \in 1..Len(loans_df) :
                (loans_df[i].loan_amount > 0 /\ loans_df[i].interest_rate >= 0) =>
                    /\ loans_df[i].current_interest >= 0
                    /\ loans_df[i].total_amount >= loans_df[i].loan_amount * 100

\* C12: for a fixed principal > 0, rate >= 0 and start date, the rounded
\* result of calculate_interest does not decrease when the as-of date
\* advances, and it is 0 when the as-of date is the start date.
ThmC12 ==
    [][/\ (/\ last.op = "calculate_interest"
           /\ last'.op = "calculate_interest"
           /\ last'.amount = last.amount /\ last.amount > 0
           /\ last'.rate = last.rate /\ last.rate >= 0
           /\ last'.start_date = last.start_date
           /\ last.end_date <= last'.end_date)
          => last.ret <= last'.ret
       /\ (last'.op = "calculate_interest" /\ last'.end_date = last'.start_date)
          => last'.ret = 0]_vars

WitC12 ==
    /\ last.op = "calculate_interest"
    /\ last.amount = 10000
    /\ last.rate = 10
    /\ last.end_date - last.start_date = 182
    /\ last.ret = 49863

====
